---------------------------- MODULE Spec2Model ----------------------------
(***************************************************************************)
(* A model of package clock (src/clock/clock.go): the FakeClock, its       *)
(* waiters and the fakeClockTimer handle, driven by several goroutines.    *)
(*                                                                         *)
(* Every method of the package takes fc.mu on entry and releases it on     *)
(* return.  The driver's Advance is two steps, the Lock step (possible     *)
(* only while no thread holds the mutex) and the Body step, which runs the *)
(* method body and unlocks; WaitAdvance is a loop of lock / scan / unlock  *)
(* / sleep and ends by calling Advance.  A consumer's call is one step     *)
(* taken while the mutex is free; LockSpec splits it into its Lock step    *)
(* and its body, and FairSpec adds the scheduling of the driver's steps.   *)
(***************************************************************************)
EXTENDS Integers, Sequences, FiniteSets, TLC

\* ---------------------------------------------------------------- bounds
\* Waiter objects ever allocated by After / NewTimer.
MaxWaiters == 2
\* Largest duration handed to After, NewTimer, Reset and Advance.
MaxDur == 2
\* Durations handed to After, NewTimer and Reset go down to -NegDur.
NegDur == 1
\* Goroutines consuming the clock, beside the one driving it.
NumConsumers == 1

\* make(chan time.Time, 1): the capacity of a waiter's notifyCh.
ChanCap == 1

Ids == 1..MaxWaiters
\* The driver goroutine calls Advance and WaitAdvance (the test code); the
\* consumers call Now, After, NewTimer, C, Reset, Stop and receive.
Driver == 0
Consumers == 1..NumConsumers
Threads == {Driver} \cup Consumers
NoThread == 0 - 1
Durations == (0 - NegDur)..MaxDur
AdvDurations == 0..MaxDur
WaiterCounts == 0..MaxWaiters

VARIABLES
    curTime,          \* fc.curTime
    waiters,          \* fc.waiters: the sequence of waiter ids in the list
    nAlloc,           \* waiter objects allocated so far (ids 1..nAlloc)
    timeout,          \* waiter.timeout
    notifyCh,         \* waiter.notifyCh: the buffered values, oldest first
    consumerWaiting,  \* waiter.consumerWaiting
    isTimer,          \* TRUE when a fakeClockTimer handle is bound to the waiter
    mu,               \* fc.mu: the thread holding it, or NoThread
    pc,               \* each thread's position
    argD,             \* d of the driver's Advance call
    argN,             \* numWaiters of the driver's WaitAdvance call
    retNow,           \* the value the consumer's last Now call returned
    retStop,          \* the value the last Stop call on the waiter's handle returned
    due,              \* history: armed duration minus the Advance durations since
    reached,          \* history: an Advance since the arming brought due to <= 0
    stopped,          \* history: Stop has returned for the waiter's handle
    nFired            \* history: the Advance calls that expired the waiter

vars == <<curTime, waiters, nAlloc, timeout, notifyCh, consumerWaiting, isTimer,
          mu, pc, argD, argN, retNow, retStop, due, reached, stopped, nFired>>

clockVars == <<curTime, waiters, nAlloc, timeout, notifyCh, consumerWaiting, isTimer>>
histVars == <<due, reached, stopped, nFired>>
callVars == <<argD, argN, retNow, retStop>>

\* ------------------------------------------------------------ helpers
InList(ws, w) == \E i \in 1..Len(ws) : ws[i] = w

Allocated(w) == w <= nAlloc

\* time.Time.Add: a pure function returning the later time.
TimeAdd(t, d) == t + d

\* Advance line 128, `fc.curTime.Add(d)`: the sum is computed and discarded,
\* fc.curTime keeps its value.
AdvancedTime(t, d) == LET discarded == TimeAdd(t, d) IN t

\* select { case ch <- v: default: }: a send that is dropped when the buffer is full.
TrySend(ch, v) == IF Len(ch) < ChanCap THEN Append(ch, v) ELSE ch

\* The comparison of line 133 made strict.
ExpiredStrict(t, d) == t < d

\* Advance line 133: the waiter expires in this call.
Expired(t, d) == t <= d

\* The loop of Advance over fc.waiters, from index i on.  st holds the
\* timeouts, the channels and the activeWaiters list built so far.
\* The expired branch with the notification queued whatever the slot holds
\* and without the `continue`: the waiter stays in the list.
FireQueueAndKeep(st, w, now) ==
    [st EXCEPT !.timeout[w] = 0,
               !.notifyCh[w] = Append(@, now),
               !.active = Append(@, w),
               !.fired = @ \cup {w}]

\* The expired branch without the `continue` skipping the append: the waiter
\* is notified and stays in activeWaiters with timeout 0.
FireWithoutContinue(st, w, now) ==
    [st EXCEPT !.timeout[w] = 0,
               !.notifyCh[w] = TrySend(@, now),
               !.active = Append(@, w),
               !.fired = @ \cup {w}]

\* Advance lines 134-142: the expired waiter is zeroed and notified, and the
\* `continue` leaves it out of activeWaiters.  st.fired records it.
Fire(st, w, now) ==
    [st EXCEPT !.timeout[w] = 0,
               !.notifyCh[w] = TrySend(@, now),
               !.fired = @ \cup {w}]

\* The unexpired branch without the append of line 145: the waiter is
\* decremented and dropped from the list.
KeepWithoutAppend(st, w, d) ==
    [st EXCEPT !.timeout[w] = @ - d]

\* Advance lines 144-145: the waiter stays, with d less to wait.
Keep(st, w, d) ==
    [st EXCEPT !.timeout[w] = @ - d,
               !.active = Append(@, w)]

RECURSIVE AdvanceLoop(_, _, _, _, _)
AdvanceLoop(ws, i, d, now, st) ==
    IF i > Len(ws) THEN st
    ELSE LET w == ws[i] IN
         IF Expired(st.timeout[w], d)
         THEN AdvanceLoop(ws, i + 1, d, now, Fire(st, w, now))
         ELSE AdvanceLoop(ws, i + 1, d, now, Keep(st, w, d))

\* The loop of WaitAdvance counting every waiter, watched or not.
RECURSIVE ScanAllWaiters(_, _, _, _, _)
ScanAllWaiters(ws, cw, i, cnt, n) ==
    IF i > Len(ws) THEN FALSE
    ELSE IF cnt + 1 = n THEN TRUE ELSE ScanAllWaiters(ws, cw, i + 1, cnt + 1, n)

\* The loop of WaitAdvance over fc.waiters: TRUE when the running count of
\* waiters with consumerWaiting equals numWaiters after some element.
RECURSIVE ScanWaiters(_, _, _, _, _)
ScanWaiters(ws, cw, i, cnt, n) ==
    IF i > Len(ws) THEN FALSE
    ELSE LET c == IF cw[ws[i]] THEN cnt + 1 ELSE cnt IN
         IF c = n THEN TRUE ELSE ScanWaiters(ws, cw, i + 1, c, n)

\* The comparison of line 184 inverted: only the handle's waiter is kept.
RemoveOthers(ws, w) == SelectSeq(ws, LAMBDA x : x = w)

\* The loop of Stop: the list without the handle's waiter.
RemoveWaiter(ws, w) == SelectSeq(ws, LAMBDA x : x # w)

\* Line 181 taking every timeout not above 0 as fired.
AlreadyFiredOrNegative(t) == t <= 0

\* Stop line 181.
AlreadyFired(t) == t = 0

\* makeWaiter: the new waiter's fields.
MakeWaiter(d, cw) == [timeout |-> d, notifyCh |-> <<>>, consumerWaiting |-> cw]

\* ------------------------------------------------------------ initial state
\* NewFakeClock(curTime): no waiters, the mutex free, every thread outside a call.
Init ==
    /\ curTime = 0
    /\ waiters = <<>>
    /\ nAlloc = 0
    /\ timeout = [w \in Ids |-> 0]
    /\ notifyCh = [w \in Ids |-> <<>>]
    /\ consumerWaiting = [w \in Ids |-> FALSE]
    /\ isTimer = [w \in Ids |-> FALSE]
    /\ mu = NoThread
    /\ pc = [t \in Threads |-> "idle"]
    /\ argD = 0
    /\ argN = 0
    /\ retNow = [t \in Consumers |-> 0]
    /\ retStop = [w \in Ids |-> FALSE]
    /\ due = [w \in Ids |-> 0]
    /\ reached = [w \in Ids |-> FALSE]
    /\ stopped = [w \in Ids |-> FALSE]
    /\ nFired = [w \in Ids |-> 0]

\* ------------------------------------------------------------ calls
\* Taking the mutex without waiting for it to be free.
LockWithoutWaiting(t, from, to) ==
    /\ pc[t] = from
    /\ mu' = t
    /\ pc' = [pc EXCEPT ![t] = to]

\* fc.mu.Lock() by a thread at position `from`, which goes to `to`.
Lock(t, from, to) ==
    /\ pc[t] = from
    /\ mu = NoThread
    /\ mu' = t
    /\ pc' = [pc EXCEPT ![t] = to]

\* A consumer's call of a method that locks on entry and unlocks on return
\* (lines 69-70, 77-78, 88-89, 164-165, 172-173, 178-179).  Nothing can act on
\* the clock between the two, so under Spec the call is one step, possible
\* while the mutex is free, that leaves it free.  Under LockSpec the call is
\* two steps: ConsumerLock takes the mutex, and this one, taken at "locked",
\* runs the body and unlocks.
Locked(t) ==
    /\ t \in Consumers
    /\ \/ pc[t] = "idle" /\ mu = NoThread
       \/ pc[t] = "locked" /\ mu = t
    /\ mu' = NoThread
    /\ pc' = [pc EXCEPT ![t] = "idle"]

\* Now()
Now(t) ==
    /\ Locked(t)
    /\ retNow' = [retNow EXCEPT ![t] = curTime]
    /\ UNCHANGED <<clockVars, histVars, argD, argN, retStop>>

\* The registration shared by After and NewTimer: makeWaiter and the append.
Register(d, cw, timer) ==
    LET w == nAlloc + 1
        nw == MakeWaiter(d, cw)
    IN  /\ nAlloc' = w
        /\ timeout' = [timeout EXCEPT ![w] = nw.timeout]
        /\ notifyCh' = [notifyCh EXCEPT ![w] = nw.notifyCh]
        /\ consumerWaiting' = [consumerWaiting EXCEPT ![w] = nw.consumerWaiting]
        /\ isTimer' = [isTimer EXCEPT ![w] = timer]
        /\ waiters' = Append(waiters, w)
        /\ due' = [due EXCEPT ![w] = d]
        /\ reached' = [reached EXCEPT ![w] = FALSE]
        /\ UNCHANGED <<curTime, stopped, nFired, callVars>>

\* After(d)
After(t) ==
    /\ Locked(t)
    /\ nAlloc < MaxWaiters
    /\ \E d \in Durations : Register(d, TRUE, FALSE)

\* NewTimer(d)
NewTimer(t) ==
    /\ Locked(t)
    /\ nAlloc < MaxWaiters
    /\ \E d \in Durations : Register(d, FALSE, TRUE)

\* Advance(d), called directly by the driver: line 125
AdvanceLock(t) ==
    /\ t = Driver
    /\ Lock(t, "idle", "advance")
    /\ \E d \in AdvDurations : argD' = d
    /\ UNCHANGED <<clockVars, histVars, argN, retStop, retNow>>

\* Advance(d), called by WaitAdvance (line 112).  WaitAdvance does not read d
\* before this call, so d is drawn here.
AdvanceLockFromWait(t) ==
    /\ Lock(t, "wa_advance", "advance")
    /\ \E d \in AdvDurations : argD' = d
    /\ argN' = 0
    /\ UNCHANGED <<clockVars, histVars, retStop, retNow>>

\* The body of Advance with a plain send `waiter.notifyCh <- fc.curTime` in
\* place of the select, and with fired waiters still visited by later calls:
\* the call waits until the slot of every waiter it expires has room.
AdvanceBodyBlocking(t) ==
    /\ pc[t] = "advance"
    /\ \A w \in Ids :
          Allocated(w) /\ Expired(timeout[w], argD) => Len(notifyCh[w]) < ChanCap
    /\ LET d == argD
           now == AdvancedTime(curTime, d)
           st == AdvanceLoop(waiters, 1, d, now,
                     [timeout |-> timeout, notifyCh |-> notifyCh,
                      active |-> <<>>, fired |-> {}])
       IN  /\ curTime' = now
           /\ timeout' = st.timeout
           /\ notifyCh' = st.notifyCh
           /\ waiters' = st.active
           /\ due' = [w \in Ids |->
                        IF ~Allocated(w) \/ reached[w] THEN due[w]
                        ELSE IF due[w] <= d THEN 0 ELSE due[w] - d]
           /\ reached' = [w \in Ids |->
                        reached[w] \/ (Allocated(w) /\ due[w] <= d)]
           /\ nFired' = [w \in Ids |->
                        IF w \in st.fired THEN nFired[w] + 1 ELSE nFired[w]]
    /\ mu' = NoThread
    /\ pc' = [pc EXCEPT ![t] = "idle"]
    /\ argD' = 0
    /\ UNCHANGED <<nAlloc, consumerWaiting, isTimer, stopped, argN, retStop,
                   retNow>>

\* lines 128-147 and the deferred unlock
AdvanceBody(t) ==
    /\ pc[t] = "advance"
    /\ LET d == argD
           now == AdvancedTime(curTime, d)
           st == AdvanceLoop(waiters, 1, d, now,
                     [timeout |-> timeout, notifyCh |-> notifyCh,
                      active |-> <<>>, fired |-> {}])
       IN  /\ curTime' = now
           /\ timeout' = st.timeout
           /\ notifyCh' = st.notifyCh
           /\ waiters' = st.active
           /\ due' = [w \in Ids |->
                        IF ~Allocated(w) \/ reached[w] THEN due[w]
                        ELSE IF due[w] <= d THEN 0 ELSE due[w] - d]
           /\ reached' = [w \in Ids |->
                        reached[w] \/ (Allocated(w) /\ due[w] <= d)]
           /\ nFired' = [w \in Ids |->
                        IF w \in st.fired THEN nFired[w] + 1 ELSE nFired[w]]
    /\ mu' = NoThread
    /\ pc' = [pc EXCEPT ![t] = "idle"]
    /\ argD' = 0
    /\ UNCHANGED <<nAlloc, consumerWaiting, isTimer, stopped, argN, retStop,
                   retNow>>

\* WaitAdvance(numWaiters, d): entering the loop
WaitAdvanceCall(t) ==
    /\ t = Driver
    /\ pc[t] = "idle"
    /\ \E n \in WaiterCounts : argN' = n
    /\ pc' = [pc EXCEPT ![t] = "wa_lock"]
    /\ UNCHANGED <<clockVars, histVars, mu, argD, retStop, retNow>>

\* line 103
WaitAdvanceLock(t) ==
    /\ Lock(t, "wa_lock", "wa_scan")
    /\ UNCHANGED <<clockVars, histVars, callVars>>

\* lines 104-116: the scan and the unlock that follows it either way
WaitAdvanceScan(t) ==
    /\ pc[t] = "wa_scan"
    /\ mu' = NoThread
    /\ pc' = [pc EXCEPT ![t] =
                 IF ScanWaiters(waiters, consumerWaiting, 1, 0, argN)
                 THEN "wa_advance" ELSE "wa_sleep"]
    /\ UNCHANGED <<clockVars, histVars, callVars>>

\* line 119: the poll interval elapses
WaitAdvanceWake(t) ==
    /\ pc[t] = "wa_sleep"
    /\ pc' = [pc EXCEPT ![t] = "wa_lock"]
    /\ UNCHANGED <<clockVars, histVars, mu, callVars>>

\* The timer handles a consumer can hold.
Handles == {w \in Ids : Allocated(w) /\ isTimer[w]}

\* C() handing out a channel made anew at each call: what the slot held is
\* not in the channel the caller gets.
CWithNewChannel(t, w) ==
    /\ Locked(t)
    /\ w \in Handles
    /\ consumerWaiting' = [consumerWaiting EXCEPT ![w] = TRUE]
    /\ notifyCh' = [notifyCh EXCEPT ![w] = <<>>]
    /\ UNCHANGED <<curTime, waiters, nAlloc, timeout, isTimer,
                   histVars, callVars>>

\* fakeClockTimer.C() on the handle of waiter w.  The channel returned is
\* ft.waiter.notifyCh, the one makeWaiter made: the slot of w.
COn(t, w) ==
    /\ Locked(t)
    /\ w \in Handles
    /\ consumerWaiting' = [consumerWaiting EXCEPT ![w] = TRUE]
    /\ UNCHANGED <<curTime, waiters, nAlloc, timeout, notifyCh, isTimer,
                   histVars, callVars>>

C(t) == \E w \in Ids : COn(t, w)

\* Reset(d) putting a waiter that is out of the list back at its end.
ResetAndRelist(t, w, d) ==
    /\ Locked(t)
    /\ w \in Handles
    /\ timeout' = [timeout EXCEPT ![w] = d]
    /\ waiters' = IF InList(waiters, w) THEN waiters ELSE Append(waiters, w)
    /\ due' = [due EXCEPT ![w] = d]
    /\ reached' = [reached EXCEPT ![w] = FALSE]
    /\ UNCHANGED <<curTime, nAlloc, notifyCh, consumerWaiting, isTimer,
                   stopped, nFired, callVars>>

\* fakeClockTimer.Reset(d) on the handle of waiter w
ResetOn(t, w, d) ==
    /\ Locked(t)
    /\ w \in Handles
    /\ timeout' = [timeout EXCEPT ![w] = d]
    /\ due' = [due EXCEPT ![w] = d]
    /\ reached' = [reached EXCEPT ![w] = FALSE]
    /\ UNCHANGED <<curTime, waiters, nAlloc, notifyCh, consumerWaiting, isTimer,
                   stopped, nFired, callVars>>

Reset(t) == \E w \in Ids, d \in Durations : ResetOn(t, w, d)

\* fakeClockTimer.Stop() on the handle of waiter w
StopOn(t, w) ==
    /\ Locked(t)
    /\ w \in Handles
    /\ retStop' = [retStop EXCEPT ![w] = AlreadyFired(timeout[w])]
    /\ waiters' = RemoveWaiter(waiters, w)
    /\ stopped' = [stopped EXCEPT ![w] = TRUE]
    /\ UNCHANGED <<curTime, nAlloc, timeout, notifyCh, consumerWaiting, isTimer,
                   due, reached, nFired, argD, argN, retNow>>

Stop(t) == \E w \in Ids : StopOn(t, w)

\* A consumer receives from a channel it holds: the channel After returned,
\* or the one C() returned.  Receiving takes no lock.
Recv(t) ==
    /\ t \in Consumers
    /\ pc[t] = "idle"
    /\ \E w \in Ids :
          /\ Allocated(w)
          /\ consumerWaiting[w]
          /\ Len(notifyCh[w]) > 0
          /\ notifyCh' = [notifyCh EXCEPT ![w] = Tail(@)]
    /\ UNCHANGED <<curTime, waiters, nAlloc, timeout, consumerWaiting, isTimer,
                   histVars, mu, pc, callVars>>

Next ==
    \E t \in Threads :
        \/ Now(t)
        \/ After(t)
        \/ NewTimer(t)
        \/ AdvanceLock(t) \/ AdvanceLockFromWait(t) \/ AdvanceBody(t)
        \/ WaitAdvanceCall(t) \/ WaitAdvanceLock(t)
        \/ WaitAdvanceScan(t) \/ WaitAdvanceWake(t)
        \/ C(t)
        \/ Reset(t)
        \/ Stop(t)
        \/ Recv(t)

Spec == Init /\ [][Next]_vars

\* ------------------------------------------------------------ lock steps
\* The same program with a consumer's fc.mu.Lock() as a step of its own.
\* fc.mu.Lock() at the entry of Now, After, NewTimer, C, Reset or Stop.
ConsumerLock(t) ==
    /\ t \in Consumers
    /\ Lock(t, "idle", "locked")
    /\ UNCHANGED <<clockVars, histVars, callVars>>

\* The body, and the unlock, of the method the consumer is in.
ConsumerBody(t) ==
    /\ pc[t] = "locked"
    /\ \/ Now(t) \/ After(t) \/ NewTimer(t)
       \/ C(t) \/ Reset(t) \/ Stop(t)

LockNext ==
    \E t \in Threads :
        \/ ConsumerLock(t)
        \/ ConsumerBody(t)
        \/ AdvanceLock(t) \/ AdvanceLockFromWait(t) \/ AdvanceBody(t)
        \/ WaitAdvanceCall(t) \/ WaitAdvanceLock(t)
        \/ WaitAdvanceScan(t) \/ WaitAdvanceWake(t)
        \/ Recv(t)

LockSpec == Init /\ [][LockNext]_vars

\* ------------------------------------------------------------ steps
\* The step that runs the body of Advance(argD).
AdvanceStep == pc[Driver] = "advance" /\ pc'[Driver] = "idle"

\* The step in which a consumer calls Stop on the handle of waiter w;
\* retStop'[w] is the result.
StopStep(w) == \E t \in Consumers : StopOn(t, w)

\* The Advance step put a notification in w's slot.
Notified(w) == Len(notifyCh'[w]) > Len(notifyCh[w])

\* ------------------------------------------------------------ C1
\* C1: Now() returns fc.curTime, and after Advance(d) completes fc.curTime is
\* its value before the call plus d (so that after Advance(d1)..Advance(dn) it
\* is the initial time plus d1+...+dn).
C1_NowAfterAdvance ==
    [][AdvanceStep => curTime' = TimeAdd(curTime, argD)]_vars

\* ------------------------------------------------------------ C2
\* Two one-shot waiters in the list, w1 with the smaller remaining duration.
AfterPair(w1, w2) ==
    /\ w1 # w2
    /\ InList(waiters, w1) /\ InList(waiters, w2)
    /\ ~isTimer[w1] /\ ~isTimer[w2]
    /\ timeout[w1] <= timeout[w2]

FiresBoth(w1, w2) == Notified(w1) /\ Notified(w2)

FiresFirstOnly(w1, w2) ==
    /\ Notified(w1)
    /\ ~Notified(w2)
    /\ InList(waiters', w2)
    /\ timeout'[w2] = timeout[w2] - timeout[w1]

\* C2 as stated: for After waiters with d1 <= d2, Advance(d2) notifies both
\* channels; Advance(d1) notifies only the first and leaves the second in the
\* list with remaining d2 - d1.
C2_AsStated ==
    [][AdvanceStep =>
        \A w1, w2 \in Ids : AfterPair(w1, w2) =>
            /\ (argD = timeout[w2] => FiresBoth(w1, w2))
            /\ (argD = timeout[w1] => FiresFirstOnly(w1, w2))]_vars

\* C2, amended: for After waiters with d1 <= d2, Advance(d2) notifies both
\* channels; Advance(d1) with d1 < d2 notifies only the first and leaves the
\* second in the list with remaining d2 - d1 (with d1 = d2 it notifies both).
C2_AdvanceFires ==
    [][AdvanceStep =>
        \A w1, w2 \in Ids : AfterPair(w1, w2) =>
            /\ (argD = timeout[w2] => FiresBoth(w1, w2))
            /\ (argD = timeout[w1] /\ timeout[w1] < timeout[w2]
                    => FiresFirstOnly(w1, w2))]_vars

\* After After(d1), After(d2) with d1 < d2 and Advance(d1): the first waiter
\* has its notification and is gone, the second waits for the rest.
C2_Witness ==
    /\ nAlloc = 2 /\ ~isTimer[1] /\ ~isTimer[2]
    /\ Len(notifyCh[1]) = 1 /\ ~InList(waiters, 1)
    /\ Len(notifyCh[2]) = 0 /\ InList(waiters, 2)
    /\ timeout[2] = 1 /\ nFired[1] = 1 /\ nFired[2] = 0

\* ------------------------------------------------------------ C3
\* C3: a waiter armed with d (After, NewTimer, Reset) gets no notification
\* before the Advance durations since the arming sum to at least d, and,
\* unless stopped, gets one in the first Advance call at which they do
\* (its slot being empty).  due[w] is d minus that sum until it is reached.
C3_FiresWhenDue ==
    [][AdvanceStep =>
        \A w \in Ids : Allocated(w) =>
            /\ (Notified(w) => due[w] <= argD)
            /\ (~stopped[w] /\ ~reached[w] /\ due[w] <= argD
                    /\ notifyCh[w] = <<>> => Notified(w))]_vars

Active(w) == InList(waiters, w)

\* C5: as the Timer interface documents, Stop() returns true if the timer was
\* active at the call and false otherwise.
C5_StopReportsActive ==
    [][\A w \in Ids : StopStep(w) => (retStop'[w] <=> Active(w))]_vars

\* ------------------------------------------------------------ C6
\* C6: once Stop() has returned for a timer, no Advance puts a notification
\* in its slot: the waiter is out of the list from the Stop step on, whatever
\* the interleaving with the driver's Advance calls.
C6_NoFireAfterStop ==
    [][\A w \in Ids : stopped[w] =>
            /\ ~InList(waiters', w)
            /\ Len(notifyCh'[w]) <= Len(notifyCh[w])
            /\ nFired'[w] = nFired[w]]_vars

\* Stop has returned false for a timer (it never fired) and the driver is in
\* an Advance call long enough to expire the timer's remaining duration.
C6_Witness ==
    \E w \in Ids :
        /\ stopped[w] /\ ~retStop[w] /\ nFired[w] = 0
        /\ pc[Driver] = "advance"
        /\ timeout[w] > 0 /\ timeout[w] <= argD

\* ------------------------------------------------------------ C7
\* The timer fired, Stop() returned true, its slot was drained, it was
\* Reset(d) and no Advance has run since.  With d > 0 the Reset came after
\* the Stop, which found the timeout 0.
RearmedAfterStop(w, d) ==
    /\ isTimer[w]
    /\ d > 0
    /\ nFired[w] >= 1
    /\ stopped[w] /\ retStop[w]
    /\ notifyCh[w] = <<>>
    /\ ~reached[w] /\ due[w] = d /\ timeout[w] = d

\* C7: Reset(d) re-arms a timer: after firing, Stop() (true), draining the
\* slot, Reset(d) and Advance(d), the slot receives a new notification.
C7_ResetRearms ==
    [][AdvanceStep =>
        \A w \in Ids : RearmedAfterStop(w, argD) => Notified(w)]_vars

\* ------------------------------------------------------------ C8
\* The timer fired, was not stopped, its slot was drained, it was Reset(d)
\* and no Advance has run since.
RearmedAfterFire(w, d) ==
    /\ isTimer[w]
    /\ nFired[w] >= 1
    /\ ~stopped[w]
    /\ notifyCh[w] = <<>>
    /\ ~reached[w] /\ due[w] = d /\ timeout[w] = d

\* C8: Advance never removes a NewTimer waiter from the list when it fires
\* (only Stop removes it), so a fired timer that is Reset(d) and advanced by d
\* fires again.
C8_TimerStaysListed ==
    [][AdvanceStep =>
        \A w \in Ids :
            /\ (isTimer[w] /\ InList(waiters, w) => InList(waiters', w))
            /\ (RearmedAfterFire(w, argD) => Notified(w))]_vars

Watched == {w \in Ids : InList(waiters, w) /\ consumerWaiting[w]}

\* C10: WaitAdvance(n, d) goes on to Advance(d) only from a scan, under the
\* lock, that saw at least n waiters of the list with consumerWaiting; an
\* After waiter has the flag from its creation, a timer only once C() ran.
C10_WaitsForWatchers ==
    [][/\ (pc[Driver] # "wa_advance" /\ pc'[Driver] = "wa_advance" =>
              /\ pc[Driver] = "wa_scan"
              /\ mu = Driver
              /\ Cardinality(Watched) >= argN)
       /\ (pc[Driver] = "wa_advance" /\ pc'[Driver] # "wa_advance" =>
              pc'[Driver] = "advance")
       /\ \A w \in Ids :
              /\ (Allocated(w)' /\ ~isTimer'[w] => consumerWaiting'[w])
              /\ (isTimer'[w] /\ consumerWaiting'[w] /\ ~consumerWaiting[w] =>
                      \E t \in Consumers : C(t))]_vars

\* One After waiter and one timer whose C() has been called are in the list
\* and WaitAdvance(2, d) is about to call Advance.
C10_Witness ==
    /\ pc[Driver] = "wa_advance" /\ argN = 2
    /\ \E w1, w2 \in Watched : ~isTimer[w1] /\ isTimer[w2]

\* ------------------------------------------------------------ C11
\* The scheduling the liveness claims rest on: a goroutine that can take its
\* next step takes it.  sync.Mutex hands the lock to a goroutine that has
\* waited for it (starvation mode), time.After fires, and a running method
\* body runs to its return.
FairSpec ==
    /\ Spec
    /\ WF_vars(WaitAdvanceLock(Driver))
    /\ WF_vars(WaitAdvanceScan(Driver))
    /\ WF_vars(WaitAdvanceWake(Driver))
    /\ WF_vars(AdvanceLockFromWait(Driver))
    /\ WF_vars(AdvanceBody(Driver))

\* The driver is inside WaitAdvance(argN, d), before its call of Advance
\* has taken the lock.
InWaitAdvance == pc[Driver] \in {"wa_lock", "wa_scan", "wa_sleep", "wa_advance"}

\* C11: for every numWaiters >= 0, the empty list with numWaiters = 0
\* included: if from some point on at least numWaiters waiters of the list
\* have consumerWaiting, WaitAdvance(numWaiters, d) eventually calls
\* Advance(d) and returns.
C11_WaitAdvanceReturns ==
    \A n \in WaiterCounts :
        [](InWaitAdvance /\ argN = n /\ [](Cardinality(Watched) >= n)
              => <>(pc[Driver] = "idle"))

Delivered(w) == notifyCh'[w][Len(notifyCh'[w])]

\* C13: the timestamp Advance(d) puts in a slot is the clock's time after
\* the call, which is its time before the call plus d, and every waiter the
\* call fires gets the same timestamp.
C13_TimestampIsAdvancedTime ==
    [][AdvanceStep =>
        \A w \in Ids : Notified(w) =>
            /\ Delivered(w) = curTime'
            /\ Delivered(w) = TimeAdd(curTime, argD)
            /\ \A v \in Ids : Notified(v) => Delivered(v) = Delivered(w)]_vars

\* ------------------------------------------------------------ C14
\* An Advance has expired w since w was created or last Reset: the Advance
\* durations since the arming have covered the armed duration, and some
\* Advance sent to w's slot.
ExpiredSinceArmed(w) == reached[w] /\ nFired[w] >= 1

\* C14: whenever Stop() returns true, an Advance has sent (or tried to send)
\* a notification to the timer's slot since the timer was created or last
\* Reset; a timer that no Advance has expired, as after NewTimer(0) or
\* Reset(0), is never reported as already fired.
C14_StopTrueOnlyAfterFire ==
    [][\A w \in Ids : StopStep(w) /\ retStop'[w] => ExpiredSinceArmed(w)]_vars

\* ------------------------------------------------------------ C15
\* Every waiter of the list expires in Advance(d).
AllExpire(d) == \A i \in 1..Len(waiters) : Expired(timeout[waiters[i]], d)

\* C15: when Advance(d), d >= 0, completes, every waiter in the list was in
\* it before the call and has timeout > 0, so no After waiter with timeout 0
\* is left in it; and if every waiter of the list expired in the call the
\* list is empty.
C15_NoExpiredLeft ==
    [][AdvanceStep /\ argD >= 0 =>
        /\ \A w \in Ids : InList(waiters', w) =>
               InList(waiters, w) /\ timeout'[w] > 0
        /\ \A w \in Ids : ~isTimer[w] /\ timeout'[w] = 0 => ~InList(waiters', w)
        /\ (AllExpire(argD) => waiters' = <<>>)]_vars

\* An Advance has expired and removed an After waiter and left a timer, not
\* yet due, in the list with the rest of its duration.
C15_Witness ==
    \E w1, w2 \in Ids :
        /\ pc[Driver] = "idle"
        /\ ~isTimer[w1] /\ nFired[w1] = 1 /\ timeout[w1] = 0 /\ ~InList(waiters, w1)
        /\ isTimer[w2] /\ nFired[w2] = 0 /\ InList(waiters, w2)
        /\ timeout[w2] > 0 /\ ~reached[w2]
        /\ waiters = <<w2>>

\* ------------------------------------------------------------ C16
\* The Advance step leaves waiter w as it is.
WaiterUntouched(w) ==
    /\ timeout'[w] = timeout[w]
    /\ notifyCh'[w] = notifyCh[w]
    /\ consumerWaiting'[w] = consumerWaiting[w]
    /\ InList(waiters', w) <=> InList(waiters, w)

\* C16: Advance(0) sends to the slot of every waiter of the list whose
\* timeout is 0 and does nothing else: a waiter with timeout > 0 keeps its
\* timeout, its slot content, its consumerWaiting flag and its place in or
\* out of the list, and the current time is unchanged.
C16_AdvanceZero ==
    [][AdvanceStep /\ argD = 0 =>
        /\ curTime' = curTime
        /\ \A w \in Ids : InList(waiters, w) /\ timeout[w] = 0 =>
               /\ Len(notifyCh'[w]) = ChanCap
               /\ (notifyCh[w] = <<>> => Notified(w) /\ Delivered(w) = curTime')
        /\ \A w \in Ids : Allocated(w) /\ timeout[w] > 0 => WaiterUntouched(w)]_vars

\* The driver is inside Advance(0) with a waiter of timeout 0 and a waiter
\* of timeout > 0 in the list, the latter with a consumer on its channel.
C16_Witness ==
    \E w1, w2 \in Ids :
        /\ pc[Driver] = "advance" /\ mu = Driver /\ argD = 0
        /\ InList(waiters, w1) /\ timeout[w1] = 0 /\ notifyCh[w1] = <<>>
        /\ InList(waiters, w2) /\ timeout[w2] > 0 /\ consumerWaiting[w2]

\* ------------------------------------------------------------ C17
\* The step in which a consumer calls Reset(d) on the handle of waiter w.
ResetStep(w, d) == \E t \in Consumers : ResetOn(t, w, d)

CStep(w) == \E t \in Consumers : COn(t, w)

\* C18: C() sets consumerWaiting of the handle's waiter and changes nothing
\* else (timeouts, slot contents, the list and the current time are as
\* before), so a second call changes nothing at all and hands out the same
\* slot with what it held; and no operation sets a consumerWaiting flag back
\* to false.
C18_CIdempotent ==
    [][/\ \A w \in Ids : CStep(w) =>
              /\ consumerWaiting'[w]
              /\ \A v \in Ids \ {w} : consumerWaiting'[v] = consumerWaiting[v]
              /\ timeout' = timeout
              /\ notifyCh' = notifyCh
              /\ waiters' = waiters
              /\ curTime' = curTime
              /\ (consumerWaiting[w] => UNCHANGED clockVars)
       /\ \A w \in Ids : consumerWaiting[w] => consumerWaiting'[w]]_vars

\* C() has been called on the handle of a timer that had fired or fired
\* later: the flag is set and the notification is in the slot.
C18_Witness ==
    \E w \in Ids :
        /\ isTimer[w] /\ consumerWaiting[w] /\ ~stopped[w]
        /\ nFired[w] = 1 /\ Len(notifyCh[w]) = 1 /\ timeout[w] = 0

\* ------------------------------------------------------------ C19
\* The thread is between an fc.mu.Lock() and the Unlock() that follows it.
InCriticalSection(t) == pc[t] \in {"locked", "advance", "wa_scan"}

\* The next step of a thread that is inside a call.
ThreadStep(t) ==
    \/ ConsumerBody(t)
    \/ AdvanceLockFromWait(t) \/ AdvanceBody(t)
    \/ WaitAdvanceLock(t) \/ WaitAdvanceScan(t) \/ WaitAdvanceWake(t)

\* C19: whatever the interleaving of the consumers' calls with the driver's
\* Advance and WaitAdvance, at most one thread is between Lock and Unlock and
\* it is the holder of the mutex; a thread outside a call does not hold it;
\* WaitAdvance holds it neither while it sleeps nor when it calls Advance;
\* and no thread inside a call is stuck: it can take its next step, or the
\* mutex it waits for is held by a thread that can take the step that
\* releases it.
C19_LockDiscipline ==
    /\ Cardinality({t \in Threads : InCriticalSection(t)}) <= 1
    /\ \A t \in Threads : InCriticalSection(t) <=> mu = t
    /\ \A t \in Threads : pc[t] = "idle" => mu # t
    /\ pc[Driver] \in {"wa_lock", "wa_sleep", "wa_advance"} => mu # Driver
    /\ \A t \in Threads : pc[t] # "idle" =>
           \/ ENABLED ThreadStep(t)
           \/ /\ mu \in Threads \ {t}
              /\ ENABLED (ThreadStep(mu) /\ mu' = NoThread)

\* A consumer is inside a call and holds the mutex while WaitAdvance has
\* finished its scan and is about to call Advance, which has to wait for it.
C19_Witness ==
    \E t \in Consumers :
        /\ pc[t] = "locked" /\ mu = t
        /\ pc[Driver] = "wa_advance"
        /\ ~ENABLED AdvanceLockFromWait(Driver)

\* ------------------------------------------------------------ C20
\* C20: the channel After(d) returned gets at most one notification over the
\* life of the clock: at most one Advance ever sends to it, and once its
\* waiter has fired the waiter is out of the list, where no later Advance
\* or WaitAdvance finds it.
C20_AfterFiresOnce ==
    \A w \in Ids : Allocated(w) /\ ~isTimer[w] =>
        /\ nFired[w] <= 1
        /\ Len(notifyCh[w]) <= nFired[w]
        /\ (nFired[w] = 1 => ~InList(waiters, w) /\ timeout[w] = 0)

\* The consumer has received the one notification of its After channel, and
\* the driver is inside a later Advance call.
C20_Witness ==
    \E w \in Ids :
        /\ Allocated(w) /\ ~isTimer[w]
        /\ nFired[w] = 1 /\ notifyCh[w] = <<>>
        /\ pc[Driver] = "advance" /\ mu = Driver

=============================================================================
